---- MODULE Spec2Model ----
(***************************************************************************)
(* Model of estimagic/visualization/sensitivity_plot.py:                   *)
(* moment_sensitivity_plot(sensitivity).                                   *)
(*                                                                         *)
(* A DataFrame is a record [columns, index, data] with data a sequence of  *)
(* rows.  Cell values and labels are tagged records so that strings and    *)
(* numbers live in one type.  DataFrames are objects on a heap, so that a  *)
(* write through the local name df is visible to the caller exactly when   *)
(* df refers to the caller's object.                                       *)
(***************************************************************************)
EXTENDS Integers, Sequences, FiniteSets, TLC

\* ------------------------------------------------------------------ bounds
MaxTables == 2
MaxParams == 4

\* ------------------------------------------------------------------ values
Str(s) == [kind |-> "str", s |-> s, n |-> 0]
Num(n) == [kind |-> "num", s |-> "", n |-> n]
None == [kind |-> "none", s |-> "", n |-> 0]

Min(a, b) == IF a < b THEN a ELSE b

SeqRange(q) == {q[k] : k \in 1..Len(q)}

NoFrame == [columns |-> <<>>, index |-> <<>>, data |-> <<>>]

RangeIndex(n) == [r \in 1..n |-> Num(r - 1)]

\* --------------------------------------------------------- caller's inputs
ParamPool == <<"a", "b", "c", "d", "e", "f">>

Layouts ==
    { <<"name", "m1">>, <<"name", "m1", "m2">>, <<"name", "m1", "m2", "m3">>,
      <<"m1", "name">>, <<"m1", "m2">>, <<"m1">> }

MeasureVal(c, r) == (IF (r + c) % 2 = 0 THEN -1 ELSE 1) * (10 * c + r)

MkTable(layout, P, rev) ==
    [columns |-> [c \in 1..Len(layout) |-> Str(layout[c])],
     index   |-> RangeIndex(P),
     data    |-> [r \in 1..P |-> [c \in 1..Len(layout) |->
                    IF layout[c] = "name"
                    THEN Str(ParamPool[IF rev THEN P + 1 - r ELSE r])
                    ELSE Num(MeasureVal(c, r))]]]

FirstTables ==
    {MkTable(l, P, rev) : l \in Layouts, P \in 1..MaxParams, rev \in BOOLEAN}

\* later tables either have as many rows as the first one or one more (mod)
LaterTables(first) ==
    LET P0 == Len(first.index) IN
    {MkTable(l, P, rev) : l \in Layouts, P \in {P0, (P0 % MaxParams) + 1},
                          rev \in BOOLEAN}

TableLists ==
    {<<>>}
    \cup UNION {{<<first>> \o rest : rest \in [1..n -> LaterTables(first)]} :
                    first \in FirstTables, n \in 0..(MaxTables - 1)}

\* ------------------------------------------------------------ heap objects
CopyId == MaxTables + 1
TransposedId == MaxTables + 2
HeapIds == 1..(MaxTables + 2)

\* --------------------------------------------------- python / pandas pieces
\* 0-based start of the python slice seq[-n:] on a sequence of length len
TailStartOffByOne(n, len) ==
    IF n = 0 \/ n + 1 > len THEN 0 ELSE len - n - 1

TailStart(n, len) ==
    IF n = 0 \/ n > len THEN 0 ELSE len - n

LastN(q, n) == SubSeq(q, TailStart(n, Len(q)) + 1, Len(q))

\* DataFrame.copy(deep=True): the object the result lives in
CopyTargetAlias(src) == src

CopyTarget(src) == CopyId

HasColumn(d, label) == Str(label) \in SeqRange(d.columns)

ColumnPos(d, label) == CHOOSE c \in 1..Len(d.columns) : d.columns[c] = Str(label)

\* d[label].to_list()
ColumnToList(d, label) ==
    [r \in 1..Len(d.index) |-> d.data[r][ColumnPos(d, label)]]

AbsValIdentity(v) == v

AbsVal(v) == IF v.kind = "num" /\ v.n < 0 THEN Num(-v.n) ELSE v

AbsRaisesNever(d, n) == FALSE

\* d.iloc[:, -n:].abs() raises TypeError on a str cell
AbsRaises(d, n) ==
    \E r \in 1..Len(d.index) : \E c \in 1..Len(d.columns) :
        c > TailStart(n, Len(d.columns)) /\ d.data[r][c].kind = "str"

AbsTailAllColumns(d, n) ==
    [d EXCEPT !.data = [r \in 1..Len(d.index) |-> [c \in 1..Len(d.columns) |->
        AbsVal(d.data[r][c])]]]

\* d.iloc[:, -n:] = d.iloc[:, -n:].abs()
AbsTail(d, n) ==
    [d EXCEPT !.data = [r \in 1..Len(d.index) |-> [c \in 1..Len(d.columns) |->
        IF c > TailStart(n, Len(d.columns))
        THEN AbsVal(d.data[r][c]) ELSE d.data[r][c]]]]

\* d.T
Transpose(d) ==
    [columns |-> d.index,
     index   |-> d.columns,
     data    |-> [c \in 1..Len(d.columns) |-> [r \in 1..Len(d.index) |->
                    d.data[r][c]]]]

\* d[-n:] (row slice)
RowTail(d, n) ==
    [columns |-> d.columns, index |-> LastN(d.index, n), data |-> LastN(d.data, n)]

\* d.reset_index(inplace=True)
ResetIndex(d) ==
    [columns |-> <<Str("index")>> \o d.columns,
     index   |-> RangeIndex(Len(d.index)),
     data    |-> [r \in 1..Len(d.index) |-> <<d.index[r]>> \o d.data[r]]]

\* ------------------------------------------------------ seaborn / matplotlib
NoGrid == [data |-> NoFrame, x_vars |-> <<>>, y_vars |-> <<>>, axes |-> <<>>,
           drawn |-> FALSE, suptitle |-> 0]

NewAxis(x) == [x_var |-> x, y_var |-> Str("index"), title |-> None,
               xlim_left |-> None, xgrid |-> TRUE, ygrid |-> TRUE]

PairGrid(d, x_vars, y_vars) ==
    [data |-> d, x_vars |-> x_vars, y_vars |-> y_vars,
     axes |-> [k \in 1..Len(x_vars) |-> NewAxis(x_vars[k])],
     drawn |-> FALSE, suptitle |-> 0]

titles == <<"intersection", "beta1", "beta2">>

\* for ax, title in zip(g.axes.flat, titles): ...
SetTitles(axes) ==
    [k \in 1..Len(axes) |->
        IF k <= Min(Len(axes), Len(titles))
        THEN [axes[k] EXCEPT !.title = Str(titles[k]), !.xlim_left = Num(0),
                             !.xgrid = FALSE, !.ygrid = TRUE]
        ELSE axes[k]]

FileNumberZeroBased(k) == k

FileNumber(k) == k + 1

NoErr == [type |-> "", line |-> 0]
Raise(type, line) == [type |-> type, line |-> line]

\* -------------------------------------------------------------------- state
VARIABLES
    orig,           \* the caller's tables as they were at the call
    heap,           \* object id -> DataFrame
    sensitivity,    \* the argument / local name: [type, items]
    number_sens, df_columns, number_params, i,
    df,             \* object id the local name df is bound to (0: unbound)
    g,              \* the PairGrid
    files,          \* figures saved so far, in order of writing
    pc, err, result

vars == <<orig, heap, sensitivity, number_sens, df_columns, number_params, i,
          df, g, files, pc, err, result>>

Init ==
    /\ orig \in TableLists
    /\ heap = [k \in HeapIds |-> IF k <= Len(orig) THEN orig[k] ELSE NoFrame]
    /\ \E type \in {"list", "DataFrame"} :
          /\ type = "DataFrame" => Len(orig) = 1
          /\ sensitivity = [type |-> type, items |-> [k \in 1..Len(orig) |-> k]]
    /\ number_sens = 0
    /\ df_columns = <<>>
    /\ number_params = 0
    /\ i = 0
    /\ df = 0
    /\ g = NoGrid
    /\ files = <<>>
    /\ pc = "l16"
    /\ err = NoErr
    /\ result = ""

Fail(type, line) ==
    /\ pc' = "failed"
    /\ err' = Raise(type, line)

\* lines 16-17
Wrap ==
    /\ pc = "l16"
    /\ sensitivity' = IF sensitivity.type # "list"
                      THEN [type |-> "list", items |-> sensitivity.items]
                      ELSE sensitivity
    /\ pc' = "l19"
    /\ UNCHANGED <<orig, heap, number_sens, df_columns, number_params, i, df, g,
                   files, err, result>>

\* line 19
CountTables ==
    /\ pc = "l19"
    /\ number_sens' = Len(sensitivity.items)
    /\ pc' = "l21"
    /\ UNCHANGED <<orig, heap, sensitivity, df_columns, number_params, i, df, g,
                   files, err, result>>

\* lines 21-22
ReadNames ==
    /\ pc = "l21"
    /\ IF Len(sensitivity.items) = 0
       THEN Fail("IndexError", 21) /\ UNCHANGED <<df_columns, number_params>>
       ELSE IF ~HasColumn(heap[sensitivity.items[1]], "name")
       THEN Fail("KeyError", 21) /\ UNCHANGED <<df_columns, number_params>>
       ELSE /\ df_columns' = ColumnToList(heap[sensitivity.items[1]], "name")
            /\ number_params' = Len(df_columns')
            /\ pc' = "l24"
            /\ UNCHANGED err
    /\ UNCHANGED <<orig, heap, sensitivity, number_sens, i, df, g, files, result>>

\* lines 24-25: loop head; i is the index of the table to process next
LoopHead ==
    /\ pc = "l24"
    /\ pc' = IF i < number_sens THEN "l26" ELSE "l78"
    /\ UNCHANGED <<orig, heap, sensitivity, number_sens, df_columns,
                   number_params, i, df, g, files, err, result>>

\* line 26
CopyTable ==
    /\ pc = "l26"
    /\ df' = CopyTarget(sensitivity.items[i + 1])
    /\ heap' = [heap EXCEPT ![df'] = heap[sensitivity.items[i + 1]]]
    /\ pc' = "l27"
    /\ UNCHANGED <<orig, sensitivity, number_sens, df_columns, number_params, i,
                   g, files, err, result>>

\* line 27
AbsStep ==
    /\ pc = "l27"
    /\ IF AbsRaises(heap[df], number_sens)
       THEN Fail("TypeError", 27) /\ UNCHANGED heap
       ELSE /\ heap' = [heap EXCEPT ![df] = AbsTail(heap[df], number_sens)]
            /\ pc' = "l29"
            /\ UNCHANGED err
    /\ UNCHANGED <<orig, sensitivity, number_sens, df_columns, number_params, i,
                   df, g, files, result>>

\* line 29
TransposeTail ==
    /\ pc = "l29"
    /\ df' = TransposedId
    /\ heap' = [heap EXCEPT ![TransposedId] = RowTail(Transpose(heap[df]), number_sens)]
    /\ pc' = "l30"
    /\ UNCHANGED <<orig, sensitivity, number_sens, df_columns, number_params, i,
                   g, files, err, result>>

\* line 30
SetColumns ==
    /\ pc = "l30"
    /\ IF Len(df_columns) # Len(heap[df].columns)
       THEN Fail("ValueError", 30) /\ UNCHANGED heap
       ELSE /\ heap' = [heap EXCEPT ![df].columns = df_columns]
            /\ pc' = "l31"
            /\ UNCHANGED err
    /\ UNCHANGED <<orig, sensitivity, number_sens, df_columns, number_params, i,
                   df, g, files, result>>

\* line 31
ResetIndexStep ==
    /\ pc = "l31"
    /\ heap' = [heap EXCEPT ![df] = ResetIndex(heap[df])]
    /\ pc' = "l34"
    /\ UNCHANGED <<orig, sensitivity, number_sens, df_columns, number_params, i,
                   df, g, files, err, result>>

\* lines 34-40
MakeGrid ==
    /\ pc = "l34"
    /\ g' = PairGrid(heap[df], LastN(heap[df].columns, number_params),
                     <<Str("index")>>)
    /\ pc' = "l43"
    /\ UNCHANGED <<orig, heap, sensitivity, number_sens, df_columns,
                   number_params, i, df, files, err, result>>

\* lines 43-56
Draw ==
    /\ pc = "l43"
    /\ g' = [g EXCEPT !.drawn = TRUE]
    /\ pc' = "l59"
    /\ UNCHANGED <<orig, heap, sensitivity, number_sens, df_columns,
                   number_params, i, df, files, err, result>>

\* lines 59-69
TitleAxes ==
    /\ pc = "l59"
    /\ g' = [g EXCEPT !.axes = SetTitles(g.axes)]
    /\ pc' = "l71"
    /\ UNCHANGED <<orig, heap, sensitivity, number_sens, df_columns,
                   number_params, i, df, files, err, result>>

\* lines 71-74
Suptitle ==
    /\ pc = "l71"
    /\ g' = [g EXCEPT !.suptitle = i + 1]
    /\ pc' = "l76"
    /\ UNCHANGED <<orig, heap, sensitivity, number_sens, df_columns,
                   number_params, i, df, files, err, result>>

\* line 76, then the next round of the for loop
SaveFig ==
    /\ pc = "l76"
    /\ files' = Append(files, [number |-> FileNumber(i), fig |-> g])
    /\ i' = i + 1
    /\ pc' = "l24"
    /\ UNCHANGED <<orig, heap, sensitivity, number_sens, df_columns,
                   number_params, df, g, err, result>>

\* line 78
Return ==
    /\ pc = "l78"
    /\ result' = "Figures saved."
    /\ pc' = "done"
    /\ UNCHANGED <<orig, heap, sensitivity, number_sens, df_columns,
                   number_params, i, df, g, files, err>>

Next ==
    \/ Wrap
    \/ CountTables
    \/ ReadNames
    \/ LoopHead
    \/ CopyTable
    \/ AbsStep
    \/ TransposeTail
    \/ SetColumns
    \/ ResetIndexStep
    \/ MakeGrid
    \/ Draw
    \/ TitleAxes
    \/ Suptitle
    \/ SaveFig
    \/ Return

Spec == Init /\ [][Next]_vars

\* ================================================================= claims
NCols(t) == Len(t.columns)
NRows(t) == Len(t.index)

InLoopBody == pc \in {"l26", "l27", "l29", "l30", "l31", "l34", "l43", "l59", "l71", "l76"}
GridStages == {"l43", "l59", "l71", "l76"}

\* cell v is the absolute value of the numeric cell o
IsAbsOf(v, o) ==
    /\ o.kind = "num"
    /\ v.kind = "num"
    /\ v.n >= 0
    /\ (v.n = o.n \/ v.n = 0 - o.n)

\* some cell of the last n columns of t (all columns when n exceeds the
\* width) holds a string
LastNHasStr(t, n) ==
    \E r \in 1..NRows(t) : \E c \in 1..NCols(t) :
        c > NCols(t) - n /\ t.data[r][c].kind = "str"

\* number of all-numeric columns at the right end of t
NumericColumn(t, c) == \A r \in 1..NRows(t) : t.data[r][c].kind = "num"
TrailingNumeric(t) ==
    CHOOSE m \in 0..NCols(t) :
        /\ \A c \in 1..NCols(t) : c > NCols(t) - m => NumericColumn(t, c)
        /\ m < NCols(t) => ~NumericColumn(t, NCols(t) - m)

\* d is what lines 26-31 make of table t in a sequence of n tables: one row
\* per column among the last n of t, an index column with that column's
\* label, then one column per row of t with the absolute value of the cell
ReshapedFrom(d, t, n) ==
    LET rows == Min(n, NCols(t))
        off == NCols(t) - rows
    IN  /\ NRows(d) = rows
        /\ NCols(d) = NRows(t) + 1
        /\ \A r \in 1..rows :
              /\ Len(d.data[r]) = NRows(t) + 1
              /\ d.data[r][1] = t.columns[off + r]
              /\ \A c \in 1..NRows(t) : IsAbsOf(d.data[r][c + 1], t.data[c][off + r])

\* C1: in every state of a call, whether it is running, has returned or has
\* failed, every table of the caller holds the labels and the values (signs
\* included) it held when the call started.
C1_CallerTablesUnchanged ==
    \A k \in 1..Len(orig) : heap[sensitivity.items[k]] = orig[k]

\* C1 witness: the absolute-value step has changed the local copy.
C1_Witness ==
    /\ pc = "l29"
    /\ heap[df] # orig[i + 1]
    /\ df # sensitivity.items[i + 1]

\* C2 as stated: once line 27 has been executed for a table, with or without
\* an error, the copy holds the absolute value in each of its last N columns
\* and the original value in every other column.
C2_Original ==
    (pc = "l29" \/ (pc = "failed" /\ err.line = 27)) =>
        LET t == orig[i + 1] IN
        \A r \in 1..NRows(t) : \A c \in 1..NCols(t) :
            IF c > NCols(t) - number_sens
            THEN IsAbsOf(heap[df].data[r][c], t.data[r][c])
            ELSE heap[df].data[r][c] = t.data[r][c]

\* C2 amended: line 27 completes exactly when the last N columns (all of
\* them when N exceeds the width) hold no string; the copy then holds the
\* absolute value in those columns and the original value, sign included, in
\* every other column.  Otherwise line 27 raises TypeError and the copy is
\* left equal to the original in every column.
C2_AbsOnLastN ==
    LET t == orig[i + 1] IN
    /\ pc = "l29" =>
          /\ ~LastNHasStr(t, number_sens)
          /\ heap[df].columns = t.columns
          /\ \A r \in 1..NRows(t) : \A c \in 1..NCols(t) :
                IF c > NCols(t) - number_sens
                THEN IsAbsOf(heap[df].data[r][c], t.data[r][c])
                ELSE heap[df].data[r][c] = t.data[r][c]
    /\ (pc = "failed" /\ err.line = 27) =>
          /\ err.type = "TypeError"
          /\ LastNHasStr(t, number_sens)
          /\ heap[df] = t

\* C2 witness: line 27 completed on a table that has a negative value both
\* in a measure column before the last N and in one of the last N columns.
C2_Witness ==
    /\ pc = "l29"
    /\ LET t == orig[i + 1] IN
       /\ \E r \in 1..NRows(t) : \E c \in 1..NCols(t) :
             c <= NCols(t) - number_sens /\ t.data[r][c].n < 0
       /\ \E r \in 1..NRows(t) : \E c \in 1..NCols(t) :
             c > NCols(t) - number_sens /\ t.data[r][c].n < 0

\* C3: the table handed to the renderer for a table that has a name column
\* of length P has exactly N rows and, next to the index column, exactly P
\* parameter columns, and each cell is the absolute value of the cell of the
\* source table at the transposed position among its last N columns.
C3_ReshapedShape ==
    (pc \in GridStages /\ HasColumn(orig[i + 1], "name")) =>
        LET t == orig[i + 1]
            P == Len(ColumnToList(t, "name"))
        IN  /\ NRows(g.data) = number_sens
            /\ NCols(g.data) = P + 1
            /\ Len(g.x_vars) = P
            /\ Len(g.axes) = P
            /\ g.data.columns[1] = Str("index")
            /\ \A r \in 1..number_sens : \A c \in 1..P :
                  IsAbsOf(g.data.data[r][c + 1],
                          t.data[c][NCols(t) - number_sens + r])

\* C3 witness: one table, three parameters, one measure column with a
\* negative value, handed to the renderer.
C3_Witness ==
    /\ pc = "l43"
    /\ number_sens = 1
    /\ HasColumn(orig[1], "name")
    /\ NRows(orig[1]) = 3
    /\ \E r \in 1..3 : orig[1].data[r][NCols(orig[1])].n < 0

\* C4: the files written so far are numbered 1, 2, ... in the order of
\* writing, file k shows table k; while table i+1 is processed exactly the
\* files 1..i exist; the confirmation string is returned only when all N
\* files exist, and a call that completes returns it.
C4_FilesInOrder ==
    /\ \A k \in 1..Len(files) :
          /\ files[k].number = k
          /\ files[k].fig.suptitle = k
          /\ ReshapedFrom(files[k].fig.data, orig[k], Len(orig))
    /\ InLoopBody => Len(files) = i
    /\ result # "" => (pc = "done" /\ result = "Figures saved.")
    /\ pc = "done" => (result = "Figures saved." /\ Len(files) = Len(orig))

\* C4 witness: a call with at least two tables has returned.
C4_Witness ==
    /\ pc = "done"
    /\ Len(orig) >= 2
    /\ Len(files) = Len(orig)

\* C5 as stated: when the name column of the first table has a length other
\* than 3, the call writes no file and does not complete.
C5_Claim ==
    (Len(orig) >= 1 /\ HasColumn(orig[1], "name") /\ NRows(orig[1]) # 3) =>
        (files = <<>> /\ pc # "done")

\* C6 as stated: a call whose input holds a table without a name column, at
\* any position, never completes.
C6_Claim ==
    (\E k \in 1..Len(orig) : ~HasColumn(orig[k], "name")) => pc # "done"

\* the input is valid but for the number of trailing numeric columns
OtherwiseValid ==
    /\ Len(orig) >= 1
    /\ HasColumn(orig[1], "name")
    /\ \A k \in 1..Len(orig) : NRows(orig[k]) = NRows(orig[1])

\* C7 as stated: a call on an input that is valid but for a table whose
\* number of trailing numeric columns differs from N raises no error, and
\* when it completes every table has its file.
C7_Original ==
    (OtherwiseValid /\ \E k \in 1..Len(orig) : TrailingNumeric(orig[k]) # Len(orig)) =>
        /\ pc # "failed"
        /\ pc = "done" => Len(files) = Len(orig)

\* C7 amended: on an input that is valid but for the number of trailing
\* numeric columns, the call fails only with TypeError at line 27, on a
\* table whose last N columns hold a string; when no table has a string in
\* its last N columns the call never fails and completes with a file for
\* every table; when some table has, the call never completes.
C7_MismatchOutcome ==
    OtherwiseValid =>
        /\ pc = "failed" =>
              /\ err = Raise("TypeError", 27)
              /\ LastNHasStr(orig[i + 1], Len(orig))
        /\ (\A k \in 1..Len(orig) : ~LastNHasStr(orig[k], Len(orig))) =>
              /\ pc # "failed"
              /\ pc = "done" => (Len(files) = Len(orig) /\ result = "Figures saved.")
        /\ (\E k \in 1..Len(orig) : LastNHasStr(orig[k], Len(orig))) => pc # "done"

\* C7 witness: a call has completed on an input with a table whose number of
\* trailing numeric columns is not N.
C7_Witness ==
    /\ pc = "done"
    /\ OtherwiseValid
    /\ \E k \in 1..Len(orig) : TrailingNumeric(orig[k]) # Len(orig)
    /\ Len(files) = Len(orig)

\* C8 as stated: the parameter columns of the table handed to the renderer
\* for table i carry table i's own name values, in that table's row order.
C8_Claim ==
    (pc \in GridStages /\ HasColumn(orig[i + 1], "name")) =>
        /\ SubSeq(g.data.columns, 2, NCols(g.data)) = ColumnToList(orig[i + 1], "name")
        /\ g.x_vars = ColumnToList(orig[i + 1], "name")

\* C9 as stated: every subplot of every saved figure has its x-axis lower
\* bound set to zero and a grid configuration other than the default.
C9_Claim ==
    \A k \in 1..Len(files) : \A a \in 1..Len(files[k].fig.axes) :
        LET ax == files[k].fig.axes[a] IN
        /\ ax.xlim_left = Num(0)
        /\ ~(ax.xgrid /\ ax.ygrid)

\* C10: when the call has failed while i tables were done, exactly the files
\* 1..i exist, the tables before the failing one had no defect, the failing
\* one has the defect the error names, and nothing is returned; an empty
\* list and a first table without a name column fail at line 21 with no
\* file written.
C10_PartialOutput ==
    /\ pc = "failed" =>
          /\ result = ""
          /\ Len(files) = i
          /\ \A k \in 1..Len(files) : files[k].number = k
          /\ err.line = 21 => i = 0
          /\ err.line # 21 =>
                /\ i < Len(orig)
                /\ \A k \in 1..i :
                      /\ ~LastNHasStr(orig[k], Len(orig))
                      /\ NRows(orig[k]) = number_params
                /\ err.type = "TypeError" => LastNHasStr(orig[i + 1], Len(orig))
                /\ err.type = "ValueError" => NRows(orig[i + 1]) # number_params
    /\ (Len(orig) = 0 \/ ~HasColumn(orig[1], "name")) =>
          /\ files = <<>>
          /\ pc \in {"l16", "l19", "l21", "failed"}
          /\ pc = "failed" =>
                err = Raise(IF Len(orig) = 0 THEN "IndexError" ELSE "KeyError", 21)

\* C10 witness: the call has failed on a later table after a file was written.
C10_Witness ==
    /\ pc = "failed"
    /\ Len(files) >= 1
    /\ i >= 1

====
